---- MODULE Spec2Model ----
(***************************************************************************)
(* A model of got, a minimal git-compatible object store (package main).   *)
(*                                                                         *)
(* Byte strings are sequences of naturals 0..255; Go strings and []byte    *)
(* are both such sequences.  The object store is the directory            *)
(* .git/objects of the current working directory: a set of directories    *)
(* and a map from file path to file contents.  One writer process runs the *)
(* commands hash-object -w and write-tree, one call of the file system per *)
(* step, any of which may fail; a reader process runs cat-file -p and      *)
(* ls-tree between any two steps.                                          *)
(***************************************************************************)
EXTENDS Integers, Sequences, FiniteSets, TLC

\* ------------------------------------------------------------------ bounds
\* commands the writer process runs in one behaviour
MaxCmds == 2

\* ------------------------------------------------------------ byte strings
NUL == 0
SP == 32
LF == 10
HashLen == 40
RawHashLen == 20

S_blob == <<98, 108, 111, 98>>
S_tree == <<116, 114, 101, 101>>
S_commit == <<99, 111, 109, 109, 105, 116>>
S_dotgit == <<46, 103, 105, 116>>
S_objects == <<46, 103, 105, 116, 47, 111, 98, 106, 101, 99, 116, 115, 47>>
M_100644 == <<49, 48, 48, 54, 52, 52>>
M_100755 == <<49, 48, 48, 55, 53, 53>>
M_40000 == <<52, 48, 48, 48, 48>>
M_040000 == <<48, 52, 48, 48, 48, 48>>
M_120000 == <<49, 50, 48, 48, 48, 48>>
M_160000 == <<49, 54, 48, 48, 48, 48>>

\* bytes.IndexByte: the index (from 1) of the first b in s, 0 when absent
\* (Go's -1).
IndexByte(s, b) ==
  IF \E i \in 1..Len(s) : s[i] = b
  THEN CHOOSE i \in 1..Len(s) : s[i] = b /\ \A j \in 1..(i - 1) : s[j] # b
  ELSE 0

\* s[n:] of Go, n counted from 0.
From(s, n) == SubSeq(s, n + 1, Len(s))

\* s[:n] of Go.
Upto(s, n) == SubSeq(s, 1, n)

\* Go's < on strings: byte-wise lexicographic order.
RECURSIVE StrLess(_, _)
StrLess(a, b) ==
  IF b = <<>> THEN FALSE
  ELSE IF a = <<>> THEN TRUE
  ELSE IF a[1] # b[1] THEN a[1] < b[1]
  ELSE StrLess(Tail(a), Tail(b))

\* fmt's %d of a non-negative int.
RECURSIVE Itoa(_)
Itoa(n) == IF n < 10 THEN <<48 + n>> ELSE Itoa(n \div 10) \o <<48 + (n % 10)>>

\* ---------------------------------------------------------------- hex
HexDigit(n) == IF n < 10 THEN 48 + n ELSE 87 + n

\* hex.EncodeToString
EncodeToString(bs) ==
  SubSeq([i \in 1..(2 * Len(bs)) |->
            IF i % 2 = 1 THEN HexDigit(bs[(i + 1) \div 2] \div 16)
            ELSE HexDigit(bs[i \div 2] % 16)],
         1, 2 * Len(bs))

\* sha1toHex
sha1toHex(sha1sum) == EncodeToString(sha1sum)

IsHexChar(c) == (c >= 48 /\ c <= 57) \/ (c >= 97 /\ c <= 102) \/ (c >= 65 /\ c <= 70)

HexVal(c) == IF c <= 57 THEN c - 48 ELSE IF c >= 97 THEN c - 87 ELSE c - 55

\* hex.DecodeString: [err, bytes]
DecodeString(s) ==
  IF Len(s) % 2 = 1 \/ \E i \in 1..Len(s) : ~IsHexChar(s[i])
  THEN [err |-> TRUE, bytes |-> <<>>]
  ELSE [err |-> FALSE,
        bytes |-> SubSeq([i \in 1..(Len(s) \div 2) |->
                            16 * HexVal(s[2 * i - 1]) + HexVal(s[2 * i])],
                         1, Len(s) \div 2)]

\* --------------------------------------------------------------- sha1
RECURSIVE SumOver(_, _, _)
SumOver(f, lo, hi) ==
  IF lo > hi THEN 0
  ELSE IF lo = hi THEN f[lo]
  ELSE LET mid == (lo + hi) \div 2
       IN SumOver(f, lo, mid) + SumOver(f, mid + 1, hi)

\* sha1.Sum, by a stand-in: 20 bytes made of the length of the data, the sum
\* of its bytes and the sum of its bytes weighted by position.  It is a
\* function of the data, and it tells apart the inputs the model digests
\* (NoCollision).
Sum(data) ==
  LET n == Len(data)
      s1 == SumOver(data, 1, n)
      s2 == SumOver([i \in 1..n |-> i * data[i]], 1, n)
  IN <<(s2 \div 65536) % 256, (s2 \div 256) % 256, s2 % 256,
       (s1 \div 256) % 256, s1 % 256, n % 256>>
       \o SubSeq([i \in 1..RawHashLen |-> (s1 * i + s2 + 7 * n) % 256],
                 7, RawHashLen)

\* computeHash
computeHash(data) == EncodeToString(Sum(data))

\* --------------------------------------------------------------- zlib
\* compress/zlib, as a stream of one stored deflate block: the header 78 9c,
\* the block header 01, LEN and NLEN (little endian), the data, and the
\* Adler-32 checksum of the data (big endian).
\* a = 1 + the sum of the bytes, b = the sum of the values a takes, both
\* modulo 65521.
Adler32(data) ==
  LET n == Len(data)
      a == (1 + SumOver(data, 1, n)) % 65521
      b == (n + SumOver([i \in 1..n |-> (n - i + 1) * data[i]], 1, n)) % 65521
  IN <<b \div 256, b % 256, a \div 256, a % 256>>

\* zlib.NewWriter, Write, Close
Compress(data) ==
  LET n == Len(data)
  IN <<120, 156, 1, n % 256, n \div 256, 255 - (n % 256), 255 - (n \div 256)>>
       \o data \o Adler32(data)

\* zlib.NewReader and io.ReadAll: [err, data].  An empty, cut or altered
\* stream is an error.
Decompress(b) ==
  IF Len(b) < 11 \/ Upto(b, 3) # <<120, 156, 1>> THEN [err |-> TRUE, data |-> <<>>]
  ELSE LET n == b[4] + 256 * b[5]
       IN IF b[6] # 255 - b[4] \/ b[7] # 255 - b[5] \/ Len(b) # n + 11
          THEN [err |-> TRUE, data |-> <<>>]
          ELSE LET data == SubSeq(b, 8, 7 + n)
               IN IF SubSeq(b, 8 + n, 11 + n) # Adler32(data)
                  THEN [err |-> TRUE, data |-> <<>>]
                  ELSE [err |-> FALSE, data |-> data]

\* ------------------------------------------------------- the object path
\* fmt.Sprintf(".git/objects/%s", hash[:2])
ObjectDir(hash) == S_objects \o Upto(hash, 2)

\* fmt.Sprintf("%s/%s", dir, hash[2:])
ObjectPath(hash) == ObjectDir(hash) \o <<47>> \o From(hash, 2)

\* os.ReadFile on the object store: [err, data]
ReadFile(files, path) ==
  IF path \in DOMAIN files THEN [err |-> FALSE, data |-> files[path]]
  ELSE [err |-> TRUE, data |-> <<>>]

\* ------------------------------------------------------------- cat-file
\* What a reader command did: whether it reached os.ReadFile, how it ended
\* ("ok" or handleError's message), what it printed, and, for ls-tree, the
\* entries parsed and the iterations of the parse loop.
Outcome(disk, status, stdout, entries, iters) ==
  [disk |-> disk, status |-> status, stdout |-> stdout, entries |-> entries,
   iters |-> iters]

\* main, case "cat-file", from hash := os.Args[3]
CatFile(files, hash) ==
  IF Len(hash) < HashLen THEN Outcome(FALSE, "invalid hash", <<>>, <<>>, 0)
  ELSE LET f == ReadFile(files, ObjectPath(hash))
       IN IF f.err THEN Outcome(TRUE, "no such file", <<>>, <<>>, 0)
          ELSE LET z == Decompress(f.data)
               IN IF z.err THEN Outcome(TRUE, "zlib", <<>>, <<>>, 0)
                  ELSE LET nullIndex == IndexByte(z.data, NUL)
                       IN IF nullIndex = 0
                          THEN Outcome(TRUE, "invalid git object format", <<>>, <<>>, 0)
                          ELSE Outcome(TRUE, "ok", From(z.data, nullIndex), <<>>, 0)

\* -------------------------------------------------------------- ls-tree
\* gitModes[mode]; a missing key gives Go's zero value, the empty string.
gitModes(mode) ==
  IF mode = M_040000 THEN S_tree
  ELSE IF mode \in {M_100644, M_100755, M_120000} THEN S_blob
  ELSE IF mode = M_160000 THEN S_commit
  ELSE <<>>

\* The parse loop of ls-tree: [status, entries, iters], where status is "ok"
\* or handleError's message, at which the process exits.
\* A faulty loop condition: len(data) > 1.
MoreDataOffByOne(data) == Len(data) > 1

\* The condition of the parse loop: len(data) > 0.
MoreData(data) == Len(data) > 0

RECURSIVE ParseEntries(_, _, _)
ParseEntries(data, entries, iters) ==
  IF ~MoreData(data) THEN [status |-> "ok", entries |-> entries, iters |-> iters]
  ELSE
    LET spaceIdx == IndexByte(data, SP)
    IN IF spaceIdx = 0
       THEN [status |-> "malformed entry: missing mode", entries |-> entries,
             iters |-> iters + 1]
       ELSE
         LET mode == Upto(data, spaceIdx - 1)
             data1 == From(data, spaceIdx)
             nullIdx == IndexByte(data1, NUL)
         IN IF nullIdx = 0
            THEN [status |-> "malformed entry: missing name terminator",
                  entries |-> entries, iters |-> iters + 1]
            ELSE
              LET name == Upto(data1, nullIdx - 1)
                  data2 == From(data1, nullIdx)
              IN IF Len(data2) < RawHashLen
                 THEN [status |-> "malformed entry: incomplete hash",
                       entries |-> entries, iters |-> iters + 1]
                 ELSE ParseEntries(
                        From(data2, RawHashLen),
                        Append(entries,
                               [Mode |-> mode, Type |-> gitModes(mode),
                                Hash |-> sha1toHex(Upto(data2, RawHashLen)),
                                Name |-> name]),
                        iters + 1)

\* fmt.Println(entry.Name), or fmt.Printf("%s %s %s %s\n", ...)
EntryLine(entry, nameOnly) ==
  IF nameOnly THEN entry.Name \o <<LF>>
  ELSE entry.Mode \o <<SP>> \o entry.Type \o <<SP>> \o entry.Hash \o <<SP>>
         \o entry.Name \o <<LF>>

\* The print loop of ls-tree.
RECURSIVE PrintEntries(_, _)
PrintEntries(entries, nameOnly) ==
  IF entries = <<>> THEN <<>>
  ELSE EntryLine(entries[1], nameOnly) \o PrintEntries(Tail(entries), nameOnly)

\* main, case "ls-tree", from the check of len(hash)
LsTree(files, hash, nameOnly) ==
  IF Len(hash) # HashLen THEN Outcome(FALSE, "invalid hash", <<>>, <<>>, 0)
  ELSE LET f == ReadFile(files, ObjectPath(hash))
       IN IF f.err THEN Outcome(TRUE, "no such file", <<>>, <<>>, 0)
          ELSE LET z == Decompress(f.data)
               IN IF z.err THEN Outcome(TRUE, "zlib", <<>>, <<>>, 0)
                  ELSE LET nullIndex == IndexByte(z.data, NUL)
                       IN IF nullIndex = 0
                          THEN Outcome(TRUE, "invalid git object format", <<>>, <<>>, 0)
                          ELSE LET p == ParseEntries(From(z.data, nullIndex), <<>>, 0)
                               IN IF p.status # "ok"
                                  THEN Outcome(TRUE, p.status, <<>>, <<>>, p.iters)
                                  ELSE Outcome(TRUE, "ok",
                                               PrintEntries(p.entries, nameOnly),
                                               p.entries, p.iters)

\* The kind and payload stored at hash, as the spec's read returns them: the
\* payload is what cat-file prints, the kind is the envelope up to its first
\* space.
ReadObject(fs, hash) ==
  LET o == CatFile(fs, hash)
      z == Decompress(ReadFile(fs, ObjectPath(hash)).data)
  IN IF o.status # "ok" THEN [ok |-> FALSE, kind |-> <<>>, payload |-> <<>>]
     ELSE [ok |-> TRUE, kind |-> Upto(z.data, IndexByte(z.data, SP) - 1),
           payload |-> o.stdout]

\* ---------------------------------------------------------- writeObject
\* A faulty header that ends with a space, not a NUL.
EnvelopeSpace(objectType, content) ==
  objectType \o <<SP>> \o Itoa(Len(content)) \o <<SP>> \o content

\* header and fullContent of writeObject
Envelope(objectType, content) ==
  objectType \o <<SP>> \o Itoa(Len(content)) \o <<NUL>> \o content

\* ------------------------------------------------------------ writeTree
\* The mode of a file entry: "100755" when info.Mode()&0111 != 0, perm being
\* the permission bits entry.Info() reports.
FileMode(perm) ==
  IF perm % 2 = 1 \/ (perm \div 8) % 2 = 1 \/ (perm \div 64) % 2 = 1
  THEN M_100755 ELSE M_100644

\* A faulty writeTree that does not sort.
NoSort(treeEntries) == treeEntries

\* sort.Slice(treeEntries, less by Name): insertion of e into a sorted list.
RECURSIVE InsertByName(_, _)
InsertByName(sorted, e) ==
  IF sorted = <<>> THEN <<e>>
  ELSE IF StrLess(e.Name, sorted[1].Name) THEN <<e>> \o sorted
  ELSE <<sorted[1]>> \o InsertByName(Tail(sorted), e)

RECURSIVE SortByName(_)
SortByName(treeEntries) ==
  IF treeEntries = <<>> THEN <<>>
  ELSE InsertByName(SortByName(Tail(treeEntries)), treeEntries[1])

\* The loop that fills treeContent: [err, bytes].
RECURSIVE TreeContent(_)
TreeContent(treeEntries) ==
  IF treeEntries = <<>> THEN [err |-> FALSE, bytes |-> <<>>]
  ELSE LET e == treeEntries[1]
           h == DecodeString(e.Hash)
           rest == TreeContent(Tail(treeEntries))
       IN [err |-> h.err \/ rest.err,
           bytes |-> e.Mode \o <<SP>> \o e.Name \o <<NUL>> \o h.bytes \o rest.bytes]

\* ---------------------------------------------------- the working directory
\* A child of a directory: a regular file (perm, content) or a directory
\* (entries: its children).
File(name, perm, content) ==
  [name |-> name, isDir |-> FALSE, perm |-> perm, content |-> content, entries |-> {}]

Dir(name, entries) ==
  [name |-> name, isDir |-> TRUE, perm |-> 493, content |-> <<>>, entries |-> entries]

\* .git, the directory that holds the store; writeTree never looks inside.
GitDir == Dir(S_dotgit, {})

\* A tree entry for a file a, its hash that of no object.
OneEntry == M_100644 \o <<SP, 97, NUL>> \o Sum(<<>>)

\* The working directories a behaviour starts from: an empty one; one with
\* a.txt and sub/x (an executable whose content has a NUL and a space); and
\* one with B and "a<LF>b", two files of equal content: a tree entry and one
\* byte more.
Worktrees ==
  { {GitDir},
    {GitDir, File(<<97, 46, 116, 120, 116>>, 420, <<104, 101, 108, 108, 111, 10>>),
     Dir(<<115, 117, 98>>, {File(<<120>>, 493, <<0, 32, 97>>)})},
    {GitDir, File(<<66>>, 384, OneEntry \o <<120>>),
     File(<<97, 10, 98>>, 420, OneEntry \o <<120>>)} }

\* The contents of the files hash-object is run on: the content of B, and a
\* tree entry less its last byte.
Payloads == {OneEntry \o <<120>>, Upto(OneEntry, Len(OneEntry) - 1)}

\* ------------------------------------------------------------------ state
VARIABLES
  worktree,   \* the children of the current directory
  dirs,       \* the directories under .git/objects
  files,      \* the files under .git/objects: path -> contents
  cmd,        \* the writer's command: "idle", "hash-object" or "write-tree"
  stack,      \* the active calls of writeTree, the innermost last
  wo,         \* the active call of writeObject
  result,     \* how the writer's last command ended
  ncmds,      \* commands started
  obs,        \* what the last reader command did, since the last writer step
  intact,     \* objects whose latest write returned a hash
  everStored, \* objects some write has returned a hash for
  built,      \* directories writeTree has returned a hash for, each with the
              \* order in which its loop met the children
  rootHashes, \* the hashes write-tree has printed
  rewritten   \* the hashes of the objects written when already whole in the store

vars ==
  <<worktree, dirs, files, cmd, stack, wo, result, ncmds, obs,
    intact, everStored, built, rootHashes, rewritten>>

NoCall ==
  [pc |-> "none", objectType |-> <<>>, content |-> <<>>, hash |-> <<>>,
   compressed |-> <<>>, entry |-> GitDir, before |-> <<>>]

NoObs == [cmd |-> "none"]

NoResult == [status |-> "none", hash |-> <<>>]

Init ==
  /\ worktree \in Worktrees
  /\ dirs = {}
  /\ files = <<>>
  /\ cmd = "idle"
  /\ stack = <<>>
  /\ wo = NoCall
  /\ result = NoResult
  /\ ncmds = 0
  /\ obs = NoObs
  /\ intact = {}
  /\ everStored = {}
  /\ built = {}
  /\ rootHashes = {}
  /\ rewritten = {}

\* The frame of a call writeTree(dirPath): the children os.ReadDir returned
\* that the loop has not reached yet, and treeEntries.  The order in which
\* the loop meets the children is any order.
Frame(node) == [node |-> node, pending |-> node.entries, treeEntries |-> <<>>]

Top == stack[Len(stack)]

SetTop(f) == [stack EXCEPT ![Len(stack)] = f]

\* The entry of writeObject, to the call of os.MkdirAll.
CallWriteObject(objectType, content, entry) ==
  LET fullContent == Envelope(objectType, content)
  IN wo' = [pc |-> "mkdir", objectType |-> objectType, content |-> content,
            hash |-> computeHash(fullContent),
               compressed |-> Compress(fullContent), entry |-> entry,
               before |-> files]

\* handleError: the command ends with an error and exit status 1.
Fails ==
  /\ cmd' = "idle"
  /\ stack' = <<>>
  /\ wo' = NoCall
  /\ result' = [status |-> "err", hash |-> <<>>]
  /\ obs' = NoObs

Put(f, k, v) == [x \in DOMAIN f \cup {k} |-> IF x = k THEN v ELSE f[x]]

Record(objectType, content, hash) ==
  [kind |-> objectType, payload |-> content, addr |-> hash]

\* ------------------------------------------------------------ hash-object
\* main, case "hash-object": os.ReadFile of the file named, then writeObject.
HashObject(b) ==
  /\ cmd = "idle" /\ ncmds < MaxCmds
  /\ cmd' = "hash-object"
  /\ ncmds' = ncmds + 1
  /\ CallWriteObject(S_blob, b, GitDir)
  /\ result' = NoResult
  /\ obs' = NoObs
  /\ UNCHANGED <<worktree, dirs, files, stack, intact, everStored, built,
                 rootHashes,
                 rewritten>>

\* os.ReadFile of the file named fails.
HashObjectReadFails ==
  /\ cmd = "idle" /\ ncmds < MaxCmds
  /\ ncmds' = ncmds + 1
  /\ Fails
  /\ UNCHANGED <<worktree, dirs, files, intact, everStored, built,
                 rootHashes,
                 rewritten>>

\* ------------------------------------------------------------- write-tree
\* main, case "write-tree": writeTree("."), to the return of os.ReadDir.
WriteTree ==
  /\ cmd = "idle" /\ ncmds < MaxCmds
  /\ cmd' = "write-tree"
  /\ ncmds' = ncmds + 1
  /\ stack' = <<Frame(Dir(<<46>>, worktree))>>
  /\ result' = NoResult
  /\ obs' = NoObs
  /\ UNCHANGED <<worktree, dirs, files, wo, intact, everStored,
                 built, rootHashes,
                 rewritten>>

\* os.ReadDir(".") fails.
WriteTreeReadDirFails ==
  /\ cmd = "idle" /\ ncmds < MaxCmds
  /\ ncmds' = ncmds + 1
  /\ Fails
  /\ UNCHANGED <<worktree, dirs, files, intact, everStored, built,
                 rootHashes,
                 rewritten>>

\* A faulty writeTree that skips nothing.
IsStoreNever(entry) == FALSE

\* entry.Name() == ".git"
IsStore(entry) == entry.name = S_dotgit

InLoop == cmd = "write-tree" /\ wo.pc = "none" /\ stack # <<>>

\* The loop of writeTree meets .git: continue.
SkipGit ==
  /\ InLoop
  /\ \E entry \in Top.pending :
       /\ IsStore(entry)
       /\ stack' = SetTop([Top EXCEPT !.pending = @ \ {entry}])
  /\ obs' = NoObs
  /\ UNCHANGED <<worktree, dirs, files, cmd, wo, result, ncmds,
                 intact, everStored, built, rootHashes,
                 rewritten>>

\* The loop meets a directory: writeTree(fullPath), to the return of
\* os.ReadDir.
EnterDir ==
  /\ InLoop
  /\ \E entry \in Top.pending :
       /\ ~IsStore(entry) /\ entry.isDir
       /\ stack' = Append(stack, Frame(entry))
  /\ obs' = NoObs
  /\ UNCHANGED <<worktree, dirs, files, cmd, wo, result, ncmds,
                 intact, everStored, built, rootHashes,
                 rewritten>>

\* os.ReadDir(fullPath) fails: every writeTree returns the error.
EnterDirFails ==
  /\ InLoop
  /\ \E entry \in Top.pending : ~IsStore(entry) /\ entry.isDir
  /\ Fails
  /\ UNCHANGED <<worktree, dirs, files, ncmds, intact, everStored, built,
                 rootHashes,
                 rewritten>>

\* The loop meets a file: os.ReadFile(fullPath), then writeObject("blob", ...).
ReadEntry ==
  /\ InLoop
  /\ \E entry \in Top.pending :
       /\ ~IsStore(entry) /\ ~entry.isDir
       /\ CallWriteObject(S_blob, entry.content, entry)
  /\ obs' = NoObs
  /\ UNCHANGED <<worktree, dirs, files, cmd, stack, result, ncmds, intact,
                 everStored, built, rootHashes,
                 rewritten>>

\* os.ReadFile(fullPath) fails.
ReadEntryFails ==
  /\ InLoop
  /\ \E entry \in Top.pending : ~IsStore(entry) /\ ~entry.isDir
  /\ Fails
  /\ UNCHANGED <<worktree, dirs, files, ncmds, intact, everStored, built,
                 rootHashes,
                 rewritten>>

\* After the loop: sort.Slice, the tree content, writeObject("tree", ...).
CloseDir ==
  /\ InLoop
  /\ Top.pending = {}
  /\ LET c == TreeContent(SortByName(Top.treeEntries))
     IN /\ ~c.err
        /\ CallWriteObject(S_tree, c.bytes, Top.node)
  /\ obs' = NoObs
  /\ UNCHANGED <<worktree, dirs, files, cmd, stack, result, ncmds, intact,
                 everStored, built, rootHashes,
                 rewritten>>

\* ------------------------------------------------------------ writeObject
\* os.MkdirAll(dir, 0755)
Mkdir ==
  /\ wo.pc = "mkdir"
  /\ dirs' = dirs \cup {ObjectDir(wo.hash)}
  /\ wo' = [wo EXCEPT !.pc = "open"]
  /\ obs' = NoObs
  /\ UNCHANGED <<worktree, files, cmd, stack, result, ncmds,
                 intact, everStored, built, rootHashes,
                 rewritten>>

MkdirFails ==
  /\ wo.pc = "mkdir"
  /\ Fails
  /\ UNCHANGED <<worktree, dirs, files, ncmds, intact, everStored, built,
                 rootHashes,
                 rewritten>>

\* A faulty OpenFile, with no O_TRUNC: a file that exists keeps its bytes.
OpenFileNoTrunc(fs, path) == IF path \in DOMAIN fs THEN fs ELSE Put(fs, path, <<>>)

\* os.WriteFile, its OpenFile(name, O_WRONLY|O_CREATE|O_TRUNC, perm): the file
\* exists and is empty.
OpenFile(fs, path) == Put(fs, path, <<>>)

Open ==
  /\ wo.pc = "open"
  /\ ObjectDir(wo.hash) \in dirs
  /\ files' = OpenFile(files, ObjectPath(wo.hash))
  /\ wo' = [wo EXCEPT !.pc = "write"]
  /\ intact' = {r \in intact : r.addr # wo.hash}
  /\ obs' = NoObs
  /\ UNCHANGED <<worktree, dirs, cmd, stack, result, ncmds,
                 everStored, built, rootHashes,
                 rewritten>>

\* OpenFile fails: the file is as it was.
OpenFails ==
  /\ wo.pc = "open"
  /\ Fails
  /\ UNCHANGED <<worktree, dirs, files, ncmds, intact, everStored, built,
                 rootHashes,
                 rewritten>>

\* writeObject returns hash to its caller: main (hash-object), or writeTree,
\* which appends the entry of the file, or returns the hash in turn, to main
\* or to the writeTree that called it for a directory.
Returns(hash) ==
  IF cmd = "hash-object"
  THEN /\ cmd' = "idle"
       /\ result' = [status |-> "ok", hash |-> hash]
       /\ UNCHANGED <<stack, built, rootHashes>>
  ELSE IF wo.objectType = S_blob
  THEN /\ stack' = SetTop([Top EXCEPT
                             !.pending = @ \ {wo.entry},
                             !.treeEntries =
                               Append(@, [Mode |-> FileMode(wo.entry.perm),
                                          Name |-> wo.entry.name, Hash |-> hash])])
       /\ UNCHANGED <<cmd, result, built, rootHashes>>
  ELSE /\ built' = built \cup {[entries |-> Top.node.entries, hash |-> hash,
                            met |-> [i \in 1..Len(Top.treeEntries) |->
                                       Top.treeEntries[i].Name]]}
       /\ IF Len(stack) = 1
          THEN /\ cmd' = "idle"
               /\ stack' = <<>>
               /\ result' = [status |-> "ok", hash |-> hash]
               /\ rootHashes' = rootHashes \cup {hash}
          ELSE LET parent == stack[Len(stack) - 1]
               IN /\ stack' =
                       [Upto(stack, Len(stack) - 1) EXCEPT
                          ![Len(stack) - 1] =
                            [parent EXCEPT
                               !.pending = @ \ {Top.node},
                               !.treeEntries =
                                 Append(@, [Mode |-> M_40000, Name |-> Top.node.name,
                                            Hash |-> hash])]]
                  /\ UNCHANGED <<cmd, result, rootHashes>>

\* f.Write(data): the bytes follow what the file holds, which is nothing
\* after OpenFile.
FileWrite(fs, path, data) == Put(fs, path, fs[path] \o data)

\* os.WriteFile, its f.Write(data) and f.Close(); writeObject returns hash.
Write ==
  /\ wo.pc = "write"
  /\ files' = FileWrite(files, ObjectPath(wo.hash), wo.compressed)
  /\ Returns(wo.hash)
  /\ wo' = NoCall
  /\ intact' = {r \in intact : r.addr # wo.hash}
                 \cup {Record(wo.objectType, wo.content, wo.hash)}
  /\ everStored' = everStored \cup {Record(wo.objectType, wo.content, wo.hash)}
  /\ rewritten' =
       IF ReadObject(wo.before, wo.hash).ok THEN rewritten \cup {wo.hash}
       ELSE rewritten
  /\ obs' = NoObs
  /\ UNCHANGED <<worktree, dirs, ncmds>>

\* f.Write fails (the disk is full, say) after n of the bytes.
WriteFails ==
  /\ wo.pc = "write"
  /\ \E n \in {0, Len(wo.compressed) \div 2} :
       files' = FileWrite(files, ObjectPath(wo.hash), Upto(wo.compressed, n))
  /\ Fails
  /\ UNCHANGED <<worktree, dirs, ncmds, intact, everStored, built,
                 rootHashes,
                 rewritten>>

\* ---------------------------------------------------------------- readers
\* The hash of no object in the store.
NoObject == computeHash(<<>>)

\* The string the reader process is given: the hash being written, or the
\* hash the writer printed last, or else a string that is no hash: one of 41
\* characters, or one of 40 characters with a g.
ReaderArgs ==
  IF wo.pc # "none" THEN {wo.hash}
  ELSE IF result.status = "ok" THEN {result.hash}
  ELSE {NoObject \o <<48>>, Upto(NoObject, HashLen - 1) \o <<103>>}

Observed(command, arg, nameOnly, outcome) ==
  [cmd |-> command, arg |-> arg, nameOnly |-> nameOnly, disk |-> outcome.disk,
   status |-> outcome.status, stdout |-> outcome.stdout,
   entries |-> outcome.entries, iters |-> outcome.iters]

\* got cat-file -p <hash>
CatFileCmd ==
  /\ \E hash \in ReaderArgs : obs' = Observed("cat-file", hash, FALSE, CatFile(files, hash))
  /\ UNCHANGED <<worktree, dirs, files, cmd, stack, wo, result, ncmds, intact, everStored, built, rootHashes,
                 rewritten>>

\* got ls-tree [--name-only] <hash>
LsTreeCmd ==
  /\ \E hash \in ReaderArgs, nameOnly \in BOOLEAN :
       obs' = Observed("ls-tree", hash, nameOnly, LsTree(files, hash, nameOnly))
  /\ UNCHANGED <<worktree, dirs, files, cmd, stack, wo, result, ncmds, intact, everStored, built, rootHashes,
                 rewritten>>

\* ---------------------------------------------------------- specifications
Next ==
  \/ \E b \in Payloads : HashObject(b)
  \/ HashObjectReadFails
  \/ WriteTree
  \/ WriteTreeReadDirFails
  \/ SkipGit
  \/ EnterDir
  \/ EnterDirFails
  \/ ReadEntry
  \/ ReadEntryFails
  \/ CloseDir
  \/ Mkdir
  \/ MkdirFails
  \/ Open
  \/ OpenFails
  \/ Write
  \/ WriteFails
  \/ CatFileCmd
  \/ LsTreeCmd

Spec == Init /\ [][Next]_vars

\* The same with no I/O error.
NextNoFault ==
  \/ \E b \in Payloads : HashObject(b)
  \/ WriteTree
  \/ SkipGit
  \/ EnterDir
  \/ ReadEntry
  \/ CloseDir
  \/ Mkdir
  \/ Open
  \/ Write
  \/ CatFileCmd
  \/ LsTreeCmd

SpecNoFault == Init /\ [][NextNoFault]_vars

\* ------------------------------------------------------------------ claims
ReadsBack(r) ==
  ReadObject(files, r.addr) = [ok |-> TRUE, kind |-> r.kind, payload |-> r.payload]

\* A 40-character hexadecimal string.
ValidAddress(h) == Len(h) = HashLen /\ \A i \in 1..Len(h) : IsHexChar(h[i])

\* The lines of an output: the byte strings its line feeds end.
RECURSIVE Lines(_)
Lines(out) ==
  IF out = <<>> THEN <<>>
  ELSE LET i == IndexByte(out, LF)
       IN IF i = 0 THEN <<out>> ELSE <<Upto(out, i - 1)>> \o Lines(From(out, i))

\* The grammar of a tree payload: entries "mode SP name NUL 20 bytes", the
\* mode with no space in it, the name with no NUL, and nothing else.
RECURSIVE WellFormed(_)
WellFormed(p) ==
  \/ p = <<>>
  \/ \E i \in 1..Len(p), j \in 1..Len(p) :
       /\ i < j
       /\ p[i] = SP /\ \A k \in 1..(i - 1) : p[k] # SP
       /\ p[j] = NUL /\ \A k \in (i + 1)..(j - 1) : p[k] # NUL
       /\ j + RawHashLen <= Len(p)
       /\ WellFormed(From(p, j + RawHashLen))

\* The names of the children of a directory that a tree lists.
Listed(entries) == {e.name : e \in {c \in entries : c.name # S_dotgit}}

Ascending(names) ==
  \A i \in 1..Len(names), j \in 1..Len(names) : i < j => StrLess(names[i], names[j])

\* The entries of the tree objects in the store: every file that holds the
\* whole envelope of a tree.
StoredTrees ==
  {ParseEntries(From(z.data, IndexByte(z.data, NUL)), <<>>, 0) :
     z \in {y \in {Decompress(files[path]) : path \in DOMAIN files} :
              ~y.err /\ Upto(y.data, Len(S_tree) + 1) = S_tree \o <<SP>>}}

\* The stand-in for sha1 tells apart the objects written and the hash of no
\* object.
NoCollision ==
  /\ \A r1 \in everStored, r2 \in everStored : r1.addr = r2.addr => r1 = r2
  /\ \A r \in everStored : r.addr # NoObject

\* C1: an object that write has returned a hash for, and that no later write
\* to the same hash has touched, reads back: cat-file prints its payload and
\* the envelope holds its kind, whatever other objects were written before
\* or since.
C1_RoundTrip == \A r \in intact : ReadsBack(r)

\* Three objects are stored, one with a NUL and a space in its payload.
C1_Witness ==
  /\ Cardinality({r.addr : r \in intact}) >= 3
  /\ \E r \in intact : IndexByte(r.payload, NUL) > 0 /\ IndexByte(r.payload, SP) > 0

\* C2: a write of a kind and payload that an earlier write returned a hash
\* for returns the same hash, and when the object was whole as the call began
\* the store after the call is the store before it.
C2_Idempotent ==
  [][Write =>
       \A r \in everStored :
         (r.kind = wo.objectType /\ r.payload = wo.content) =>
           /\ wo.hash = r.addr
           /\ (ReadObject(wo.before, r.addr).ok => files' = wo.before)]_vars

\* Two commands have run with no I/O error, and stored one object between
\* them: the second wrote what the first had written.
C2_Witness ==
  /\ cmd = "idle" /\ result.status = "ok"
  /\ rewritten # {}
  /\ Cardinality(everStored) = 1
  /\ \A r \in everStored : ReadsBack(r)

\* C3: cat-file and ls-tree, given a string that is not 40 hexadecimal
\* characters, end with an error and never reach os.ReadFile.
C3_AddressValidation ==
  (obs.cmd # "none" /\ ~ValidAddress(obs.arg)) =>
    (obs.status # "ok" /\ ~obs.disk)

\* C4: every tree object in the store has its entries in strictly ascending
\* byte order of name, and the hash writeTree returns for a directory is the
\* same in whatever order its loop met the children.
C4_TreeOrdering ==
  /\ \A t \in StoredTrees :
       t.status = "ok" /\ Ascending([i \in 1..Len(t.entries) |-> t.entries[i].Name])
  /\ \A b1 \in built, b2 \in built : b1.entries = b2.entries => b1.hash = b2.hash
  /\ Cardinality(rootHashes) <= 1

\* writeTree has returned for one directory twice, having met its children
\* in two orders, one of them not the ascending one.
C4_Witness ==
  \E b1 \in built, b2 \in built :
    /\ b1.entries = b2.entries /\ b1.met # b2.met /\ ~Ascending(b1.met)
    /\ rootHashes = {b1.hash}

\* C5: ls-tree of a tree that writeTree built prints, for each entry, mode,
\* type, hash and name, the type being blob for a file (100644, 100755) and
\* tree for a directory (40000).
C5_ModeListing ==
  (/\ obs.cmd = "ls-tree" /\ ~obs.nameOnly /\ obs.status = "ok"
   /\ obs.arg \in {b.hash : b \in built}) =>
    /\ \A i \in 1..Len(obs.entries) :
         obs.entries[i].Type =
           (IF obs.entries[i].Mode = M_40000 THEN S_tree ELSE S_blob)
    /\ obs.stdout =
         PrintEntries(
           [i \in 1..Len(obs.entries) |->
              [obs.entries[i] EXCEPT
                 !.Type = IF obs.entries[i].Mode = M_40000 THEN S_tree ELSE S_blob]],
           FALSE)

\* ls-tree --name-only of a whole tree that writeTree built for a directory
\* prints one line for each child other than .git, the line being the child's
\* name, in ascending order.
NameOnlyListing(b) ==
  (/\ obs.cmd = "ls-tree" /\ obs.nameOnly /\ obs.arg = b.hash
   /\ \E r \in intact : r.addr = b.hash) =>
    /\ obs.status = "ok"
    /\ Len(Lines(obs.stdout)) = Cardinality(Listed(b.entries))
    /\ {Lines(obs.stdout)[i] : i \in 1..Len(Lines(obs.stdout))} = Listed(b.entries)
    /\ Ascending(Lines(obs.stdout))

\* C6, as claimed: for every directory.
C6_NameOnlyEveryDirectory == \A b \in built : NameOnlyListing(b)

\* C6, amended: for every directory no child of which has a line feed in its
\* name.
C6_NameOnly ==
  \A b \in built :
    (\A name \in Listed(b.entries) : IndexByte(name, LF) = 0) => NameOnlyListing(b)

\* ls-tree --name-only has listed a directory of two children, one of them a
\* directory, and .git.
C6_Witness ==
  \E b \in built :
    /\ obs.cmd = "ls-tree" /\ obs.nameOnly /\ obs.arg = b.hash /\ obs.status = "ok"
    /\ Cardinality(Listed(b.entries)) = 2
    /\ Cardinality(b.entries) = 3
    /\ \E e \in b.entries : e.isDir /\ e.name # S_dotgit
    /\ \A name \in Listed(b.entries) : IndexByte(name, LF) = 0

\* C7: a reader that reaches the file of an object finds no file or reads the
\* whole compressed envelope: the stream it reads is never empty or cut.
C7_NoTornRead == obs.cmd # "none" => obs.status # "zlib"

\* C8: ls-tree of an object whose payload follows the grammar of a tree
\* parses entries that encode back to the payload, in order; of any other
\* payload it ends with one of the three errors of the parse loop and prints
\* nothing; and the loop makes at most one iteration for every 22 bytes, and
\* one more to fail.
C8_TreeDecode ==
  \A r \in intact :
    LET o == LsTree(files, r.addr, FALSE)
        n == LsTree(files, r.addr, TRUE)
    IN /\ o.iters <= Len(r.payload) \div (RawHashLen + 2) + 1
       /\ IF WellFormed(r.payload)
          THEN /\ o.status = "ok" /\ n.status = "ok"
               /\ TreeContent(o.entries) = [err |-> FALSE, bytes |-> r.payload]
               /\ o.iters = Len(o.entries)
               /\ Len(Lines(n.stdout)) >= Len(o.entries)
          ELSE /\ o.status \in {"malformed entry: missing mode",
                                "malformed entry: missing name terminator",
                                "malformed entry: incomplete hash"}
               /\ n.status = o.status
               /\ o.stdout = <<>> /\ n.stdout = <<>> /\ o.entries = <<>>

\* The store holds a tree of two entries, and an object whose payload is one
\* tree entry and a byte more: the loop parses the entry, then fails.
C8_Witness ==
  /\ \E r \in intact :
       /\ WellFormed(r.payload)
       /\ Len(LsTree(files, r.addr, FALSE).entries) = 2
  /\ \E r \in intact :
       /\ ~WellFormed(r.payload)
       /\ LsTree(files, r.addr, FALSE).iters = 2
       /\ LsTree(files, r.addr, FALSE).status = "malformed entry: missing mode"

\* C9: in every state of the store, every entry of every tree object stored
\* refers to a hash at which an object is stored: a tree for a directory
\* entry (40000), a blob for a file entry.
C9_ReferentialIntegrity ==
  \A t \in StoredTrees :
    \A i \in 1..Len(t.entries) :
      LET target == ReadObject(files, t.entries[i].Hash)
      IN /\ target.ok
         /\ target.kind = (IF t.entries[i].Mode = M_40000 THEN S_tree ELSE S_blob)

\* C10: when no command is running, every object a write has ever returned a
\* hash for reads back with its kind and payload, whatever has failed since.
C10_AppendOnly == cmd = "idle" => \A r \in everStored : ReadsBack(r)

====
